---- MODULE Spec2Model ----
(***************************************************************************)
(* Model of the duplex streaming session controller of src/App.tsx: the    *)
(* App component's state and refs, startAnalysis (one process per          *)
(* invocation, suspended at each await), stopCapture, the agent            *)
(* connection's callbacks (onopen, onmessage, onerror, onclose), the       *)
(* transcription connection's handlers, the playback scheduling done in    *)
(* onmessage, the frame timer, the audio processor and addMessage.         *)
(*                                                                         *)
(* A text is a sequence of tokens, the empty string is <<>> and string     *)
(* concatenation is \o.  The timestamp of a Message (Date.now()) is read   *)
(* by nothing and is left out.  The mode toggle only chooses which         *)
(* capture call returns the video stream and is left out.                  *)
(***************************************************************************)
EXTENDS Integers, Sequences, FiniteSets, TLC

\* ---------------------------------------------------------------- bounds
MaxStarts == 2      \* invocations of startAnalysis
StopMsgs == 1       \* agent messages handled in the teardown specification
StopTrs == 1        \* transcript events handled in the teardown specification
StopClock == 1      \* transport clock range in the teardown specification
PlayMsgs == 2       \* agent messages handled in the playback specification
PlayClock == 2      \* transport clock range in the playback specification
TrEvents == 4       \* transcript events handled in the transcript specification
LogOps == 6         \* appends applied in the log specification
MaxDur == 2         \* longest decoded audio buffer, in clock units
NumTexts == 2       \* distinct non-empty one-token texts

\* ------------------------------------------------------ program constants
K == 5              \* slice(-5) in addMessage

Runs == 1..MaxStarts
NoRun == 0
RunOrNone == 0..MaxStarts

EmptyText == <<>>
NonEmptyTexts == {<<i>> : i \in 1..NumTexts}
AnyText == NonEmptyTexts \cup {EmptyText}

Max(a, b) == IF a >= b THEN a ELSE b
Min(a, b) == IF a <= b THEN a ELSE b

VARIABLES
  \* React state (App.tsx 13-19)
  status, messages, isCapturing, isSpeaking, errorMsg, userTranscript,
  \* refs (App.tsx 21-33); a ref holds the run whose object it points to, or NoRun
  videoSrc, sessionRef, sessionPromiseRef, deepgramConnectionRef,
  outputAudioContext, nextStartTime, sources, micStreamRef, captureIntervalRef,
  \* one startAnalysis invocation per run: where it is suspended
  pc,
  \* the environment's objects, per run
  video, mic, agent, prom, dg, timer, proc, encoding,
  \* playback: transport clock, decodes in flight, segments handed to source.start
  clock, decoding, sched, stopped, ended, nMsg, purges, maxArr,
  \* handled-event counters and their caps, the last handler that ran
  nTr, nOps, cap, last,
  \* the log as it would be with no truncation
  full,
  \* the runs of startAnalysis that were suspended when a stopCapture ran and are
  \* suspended still, the decodes that were in flight when a purge or a
  \* stopCapture ran, and the agent messages in the order their text reached
  \* addMessage
  stale, cancelled, logged

lifeVars == <<status, isCapturing, errorMsg, videoSrc, sessionRef, sessionPromiseRef,
              deepgramConnectionRef, outputAudioContext, micStreamRef,
              captureIntervalRef, pc, video, mic, agent, prom, dg, timer, proc, encoding,
              stale>>
playCore == <<nextStartTime, sources, clock, decoding, sched, stopped, ended, nMsg,
              purges, maxArr>>
playVars == <<playCore, cancelled>>
logVars == <<messages, full, logged, userTranscript, nTr, nOps>>
vars == <<lifeVars, playVars, logVars, isSpeaking, cap, last>>

\* ------------------------------------------------------------ addMessage
\* a slice that keeps the front: .slice(0, k)
SliceFirst(s, k) == IF Len(s) <= k THEN s ELSE SubSeq(s, 1, k)

\* .slice(-k): the last k elements
SliceLast(s, k) == IF Len(s) <= k THEN s ELSE SubSeq(s, Len(s) - k + 1, Len(s))

\* a merge test without the role === 'assistant' conjunct
ShouldMergeAnyRole(prev, role) ==
  Len(prev) > 0 /\ prev[Len(prev)].role = role

\* last && last.role === role && role === 'assistant'   (App.tsx 45)
ShouldMerge(prev, role) ==
  Len(prev) > 0 /\ prev[Len(prev)].role = role /\ role = "assistant"

\* the updater handed to setMessages by addMessage(role, text)   (App.tsx 41-52)
addMessage(prev, role, text) ==
  IF text = EmptyText THEN prev
  ELSE IF ShouldMerge(prev, role)
       THEN SliceLast([prev EXCEPT ![Len(prev)].text = @ \o text], K)
       ELSE SliceLast(Append(prev, [role |-> role, text |-> text]), K)

\* every entry ever stored, coalesced as stored, never dropped
AppendFull(all, role, text) ==
  IF text = EmptyText THEN all
  ELSE IF Len(all) > 0 /\ all[Len(all)].role = "assistant" /\ role = "assistant"
       THEN [all EXCEPT ![Len(all)].text = @ \o text]
       ELSE Append(all, [role |-> role, text |-> text])

\* ----------------------------------------------------------- stopCapture
\* t.stop() on the tracks of the stream a ref points to
StopTracks(tracks, ref) ==
  [r \in Runs |-> IF r = ref /\ tracks[r] = "live" THEN "stopped" ELSE tracks[r]]

\* try { sessionRef.current.close(); } catch(e){}
CloseSession(ag, ref) ==
  [r \in Runs |-> IF r = ref /\ ag[r] = "open" THEN "closing" ELSE ag[r]]

\* deepgramConnectionRef.current.finish()
FinishDeepgram(d, ref) ==
  [r \in Runs |-> IF r = ref /\ d[r] \in {"connecting", "open"} THEN "finished" ELSE d[r]]

\* clearInterval(captureIntervalRef.current)
ClearTimer(tm, ref) ==
  [r \in Runs |-> IF r = ref /\ tm[r] = "running" THEN "cleared" ELSE tm[r]]

\* where startAnalysis is suspended at an await
Suspended == {"awaitVideo", "awaitMic", "awaitSession"}

\* a stopCapture that releases the microphone only once the video element is
\* already detached
stopCaptureLazyRelease(ag, self) ==
  /\ timer' = ClearTimer(timer, captureIntervalRef)
  /\ mic' = IF videoSrc = NoRun THEN StopTracks(mic, micStreamRef) ELSE mic
  /\ video' = StopTracks(video, videoSrc)
  /\ videoSrc' = NoRun
  /\ agent' = IF sessionRef # NoRun THEN CloseSession(ag, sessionRef) ELSE ag
  /\ sessionPromiseRef' = IF sessionRef # NoRun THEN NoRun ELSE sessionPromiseRef
  /\ sessionRef' = NoRun
  /\ dg' = FinishDeepgram(dg, deepgramConnectionRef)
  /\ deepgramConnectionRef' = NoRun
  /\ isCapturing' = FALSE
  /\ isSpeaking' = FALSE
  /\ status' = "DISCONNECTED"
  /\ userTranscript' = EmptyText
  /\ stale' = (stale \cup {r \in Runs : pc[r] \in Suspended}) \ {self}
  /\ cancelled' = cancelled \cup {d.id : d \in decoding}
  /\ UNCHANGED <<micStreamRef, captureIntervalRef>>

\* stopCapture (App.tsx 54-77), called at the end of a handler that has already
\* moved the agent connections to ag; self is the run whose catch block makes the
\* call, if any.  It leaves micStreamRef, captureIntervalRef,
\* nextStartTimeRef and sourcesRef alone.
stopCapture(ag, self) ==
  /\ timer' = ClearTimer(timer, captureIntervalRef)
  /\ mic' = StopTracks(mic, micStreamRef)
  /\ video' = StopTracks(video, videoSrc)
  /\ videoSrc' = NoRun
  /\ agent' = IF sessionRef # NoRun THEN CloseSession(ag, sessionRef) ELSE ag
  /\ sessionPromiseRef' = IF sessionRef # NoRun THEN NoRun ELSE sessionPromiseRef
  /\ sessionRef' = NoRun
  /\ dg' = FinishDeepgram(dg, deepgramConnectionRef)
  /\ deepgramConnectionRef' = NoRun
  /\ isCapturing' = FALSE
  /\ isSpeaking' = FALSE
  /\ status' = "DISCONNECTED"
  /\ userTranscript' = EmptyText
  /\ stale' = (stale \cup {r \in Runs : pc[r] \in Suspended}) \ {self}
  /\ cancelled' = cancelled \cup {d.id : d \in decoding}
  /\ UNCHANGED <<micStreamRef, captureIntervalRef>>

\* what a handler that calls stopCapture leaves alone besides
stopFrame == <<outputAudioContext, proc, encoding, playCore, messages, full, logged,
               nTr, nOps, cap>>

Ev(op, r, stop, arg) ==
  [op |-> op, run |-> r, pre |-> status, stop |-> stop, again |-> stop /\ last.stop,
   arg |-> arg]

\* the catch block of startAnalysis (App.tsx 235-239): setErrorMsg(err.message);
\* setStatus(ERROR); stopCapture().  The later setStatus of stopCapture wins.
CatchBlock(r, msg, ag) ==
  /\ errorMsg' = msg
  /\ stopCapture(ag, r)
  /\ pc' = [pc EXCEPT ![r] = "done"]

\* ---------------------------------------------------------- startAnalysis
\* The start button is rendered while !isCapturing (App.tsx 298-305).
\* App.tsx 79-114: up to the first await, or to the throw for a missing key.
Start(r, hasKey) ==
  /\ pc[r] = "idle"
  /\ IF r = 1 THEN TRUE ELSE pc[r - 1] # "idle"
  /\ ~isCapturing
  /\ hasKey = cap.key
  /\ IF hasKey
     THEN /\ errorMsg' = "none"
          /\ status' = "CONNECTING"
          /\ outputAudioContext' = TRUE
          /\ pc' = [pc EXCEPT ![r] = "awaitVideo"]
          /\ last' = Ev("Start", r, FALSE, <<>>)
          /\ UNCHANGED <<stale, isCapturing, isSpeaking, userTranscript, videoSrc,
                         sessionRef, sessionPromiseRef, deepgramConnectionRef, micStreamRef,
                         captureIntervalRef, video, mic, agent, prom, dg, timer, proc,
                         encoding, playVars, messages, full, logged, nTr, nOps, cap>>
     ELSE /\ CatchBlock(r, "NoKey", agent)
          /\ last' = Ev("StartFailed", r, TRUE, <<>>)
          /\ UNCHANGED <<prom, stopFrame>>

\* App.tsx 114-119: the video stream is granted; it stays in the local mediaStream
VideoGranted(r) ==
  /\ pc[r] = "awaitVideo"
  /\ video' = [video EXCEPT ![r] = "live"]
  /\ pc' = [pc EXCEPT ![r] = "awaitMic"]
  /\ last' = Ev("VideoGranted", r, FALSE, <<>>)
  /\ UNCHANGED <<stale, status, isCapturing, isSpeaking, errorMsg, userTranscript, videoSrc,
                 sessionRef, sessionPromiseRef, deepgramConnectionRef, outputAudioContext,
                 micStreamRef, captureIntervalRef, mic, agent, prom, dg, timer, proc,
                 encoding, playVars, messages, full, logged, nTr, nOps, cap>>

\* App.tsx 114-117 rejects: catch
VideoDenied(r) ==
  /\ pc[r] = "awaitVideo"
  /\ CatchBlock(r, "Capture", agent)
  /\ last' = Ev("StartFailed", r, TRUE, <<>>)
  /\ UNCHANGED <<prom, stopFrame>>

\* App.tsx 119-195: the microphone is granted, the transcription connection is
\* created and its handlers registered, ai.live.connect is called, and the
\* function suspends on the session promise.
MicGranted(r) ==
  /\ pc[r] = "awaitMic"
  /\ mic' = [mic EXCEPT ![r] = "live"]
  /\ micStreamRef' = r
  /\ dg' = [dg EXCEPT ![r] = "connecting"]
  /\ deepgramConnectionRef' = r
  /\ agent' = [agent EXCEPT ![r] = "connecting"]
  /\ prom' = [prom EXCEPT ![r] = "pending"]
  /\ sessionPromiseRef' = r
  /\ pc' = [pc EXCEPT ![r] = "awaitSession"]
  /\ last' = Ev("MicGranted", r, FALSE, <<>>)
  /\ UNCHANGED <<stale, status, isCapturing, isSpeaking, errorMsg, userTranscript, videoSrc,
                 sessionRef, outputAudioContext, captureIntervalRef, video, timer, proc,
                 encoding, playVars, messages, full, logged, nTr, nOps, cap>>

\* App.tsx 119 rejects: catch
MicDenied(r) ==
  /\ pc[r] = "awaitMic"
  /\ CatchBlock(r, "Capture", agent)
  /\ last' = Ev("StartFailed", r, TRUE, <<>>)
  /\ UNCHANGED <<prom, stopFrame>>

\* App.tsx 195 rejects (the connection could not be set up): catch
SessionRejected(r) ==
  /\ pc[r] = "awaitSession"
  /\ prom[r] = "pending"
  /\ agent[r] = "connecting"
  /\ prom' = [prom EXCEPT ![r] = "rejected"]
  /\ CatchBlock(r, "Connect", [agent EXCEPT ![r] = "closed"])
  /\ last' = Ev("StartFailed", r, TRUE, <<>>)
  /\ UNCHANGED stopFrame

\* App.tsx 195-233: the session promise has resolved; the video stream is attached,
\* the audio processor wired and the frame timer started.
SessionResolved(r) ==
  /\ pc[r] = "awaitSession"
  /\ prom[r] = "resolved"
  /\ sessionRef' = r
  /\ videoSrc' = r
  /\ proc' = [proc EXCEPT ![r] = TRUE]
  /\ timer' = [timer EXCEPT ![r] = "running"]
  /\ captureIntervalRef' = r
  /\ pc' = [pc EXCEPT ![r] = "done"]
  /\ stale' = stale \ {r}
  /\ last' = Ev("SessionResolved", r, FALSE, <<r \in stale>>)
  /\ UNCHANGED <<status, isCapturing, isSpeaking, errorMsg, userTranscript,
                 sessionPromiseRef, deepgramConnectionRef, outputAudioContext,
                 micStreamRef, video, mic, agent, prom, dg, encoding, playVars,
                 messages, full, logged, nTr, nOps, cap>>

\* the stop button, rendered while isCapturing (App.tsx 308-313)
UserStop ==
  /\ isCapturing
  /\ stopCapture(agent, NoRun)
  /\ last' = Ev("UserStop", NoRun, TRUE, <<>>)
  /\ UNCHANGED <<errorMsg, pc, prom, stopFrame>>

\* ------------------------------------------------ agent connection callbacks
\* onopen (App.tsx 154-157); the session promise resolves with it
AgentOpen(r) ==
  /\ agent[r] = "connecting"
  /\ agent' = [agent EXCEPT ![r] = "open"]
  /\ prom' = [prom EXCEPT ![r] = "resolved"]
  /\ status' = "CONNECTED"
  /\ isCapturing' = TRUE
  /\ last' = Ev("AgentOpen", r, FALSE, <<r \in stale>>)
  /\ UNCHANGED <<stale, isSpeaking, errorMsg, userTranscript, videoSrc, sessionRef,
                 sessionPromiseRef, deepgramConnectionRef, outputAudioContext,
                 micStreamRef, captureIntervalRef, pc, video, mic, dg, timer, proc,
                 encoding, playVars, messages, full, logged, nTr, nOps, cap>>

\* onerror (App.tsx 185-189): setStatus(ERROR); setErrorMsg; stopCapture()
AgentError(r) ==
  /\ agent[r] \in {"connecting", "open"}
  /\ errorMsg' = "Gemini"
  /\ stopCapture([agent EXCEPT ![r] = "errored"], NoRun)
  /\ last' = Ev("AgentError", r, TRUE, <<agent[r] = "open" /\ sessionRef = r>>)
  /\ UNCHANGED <<pc, prom, stopFrame>>

\* onclose (App.tsx 190), after a remote close, a local close() or an error
AgentClose(r) ==
  /\ agent[r] \in {"connecting", "open", "closing", "errored"}
  /\ stopCapture([agent EXCEPT ![r] = "closed"], NoRun)
  /\ last' = Ev("AgentClose", r, TRUE, <<agent[r] = "open" /\ sessionRef = r>>)
  /\ UNCHANGED <<errorMsg, pc, prom, stopFrame>>

\* --------------------------------------------------------------- playback
\* decodeAudioData comes from ./utils; awaiting it suspends onmessage, and the
\* decode ends with a buffer of some duration or rejects
DecodeDurations == 1..MaxDur

\* Math.max(nextStartTimeRef.current, ctx.currentTime)   (App.tsx 163)
ClampStart(ns, now) == Max(ns, now)

\* a scheduler that forgets to advance the clock by the duration
AdvanceStartNone(ns, dur) == ns

\* nextStartTimeRef.current += audioBuffer.duration   (App.tsx 173)
AdvanceStart(ns, dur) == ns + dur

\* the interrupted branch (App.tsx 178-183) on the source set src and stopped set st
PurgeStopped(st, src) == st \cup src

\* the transport plays a started source from max(when, currentTime) for its duration
EndAt(seg) == Max(seg.start, seg.clk) + seg.dur

Scheduled == {sched[i].id : i \in DOMAIN sched}
SegOf(id) == CHOOSE seg \in {sched[i] : i \in DOMAIN sched} : seg.id = id

\* the agent messages whose text addMessage has stored, in the order of the calls
Logged(seq, id, txt) ==
  IF txt = EmptyText THEN seq ELSE Append(seq, [id |-> id, txt |-> txt])

\* ctx.currentTime advances
Tick ==
  /\ outputAudioContext
  /\ clock < cap.clock
  /\ clock' = clock + 1
  /\ last' = Ev("Tick", NoRun, FALSE, <<>>)
  /\ UNCHANGED <<lifeVars, logVars, isSpeaking, cap, nextStartTime, sources, decoding,
                 sched, stopped, ended, nMsg, purges, maxArr, cancelled>>

\* onmessage (App.tsx 158-184) up to its first suspension: with audio it stops at
\* the await of line 164, without audio it runs to its end.
OnMessage(r, hasAudio, txt, intr) ==
  /\ agent[r] = "open"
  /\ nMsg < cap.msgs
  /\ nMsg' = nMsg + 1
  /\ last' = Ev("OnMessage", r, FALSE, <<hasAudio, txt, intr>>)
  /\ IF hasAudio /\ outputAudioContext
     THEN /\ isSpeaking' = TRUE
          /\ nextStartTime' = ClampStart(nextStartTime, clock)
          /\ maxArr' = Max(maxArr, clock)
          /\ decoding' = decoding \cup {[id |-> nMsg + 1, txt |-> txt, intr |-> intr]}
          /\ UNCHANGED <<messages, full, logged, sources, stopped, purges, cancelled>>
     ELSE /\ messages' = addMessage(messages, "assistant", txt)
          /\ full' = AppendFull(full, "assistant", txt)
          /\ logged' = Logged(logged, nMsg + 1, txt)
          /\ IF intr
             THEN /\ stopped' = PurgeStopped(stopped, sources)
                  /\ sources' = {}
                  /\ nextStartTime' = 0
                  /\ isSpeaking' = FALSE
                  /\ purges' = purges + 1
                  /\ cancelled' = cancelled \cup {d.id : d \in decoding}
             ELSE UNCHANGED <<stopped, sources, nextStartTime, isSpeaking, purges,
                              cancelled>>
          /\ UNCHANGED <<maxArr, decoding>>
  /\ UNCHANGED <<lifeVars, userTranscript, nTr, nOps, cap, clock, sched, ended>>

\* onmessage resumed after the decode (App.tsx 165-183)
DecodeDone(d, dur) ==
  /\ d \in decoding
  /\ decoding' = decoding \ {d}
  /\ sched' = Append(sched, [id |-> d.id, start |-> nextStartTime, dur |-> dur,
                             clk |-> clock, epoch |-> purges, arr |-> maxArr])
  /\ maxArr' = 0
  /\ messages' = addMessage(messages, "assistant", d.txt)
  /\ full' = AppendFull(full, "assistant", d.txt)
  /\ logged' = Logged(logged, d.id, d.txt)
  /\ IF d.intr
     THEN /\ stopped' = PurgeStopped(stopped, sources \cup {d.id})
          /\ sources' = {}
          /\ nextStartTime' = 0
          /\ isSpeaking' = FALSE
          /\ purges' = purges + 1
          /\ cancelled' = cancelled \cup {e.id : e \in decoding \ {d}}
     ELSE /\ sources' = sources \cup {d.id}
          /\ nextStartTime' = AdvanceStart(nextStartTime, dur)
          /\ UNCHANGED <<stopped, isSpeaking, purges, cancelled>>
  /\ last' = Ev("DecodeDone", NoRun, FALSE, <<d.id>>)
  /\ UNCHANGED <<lifeVars, userTranscript, nTr, nOps, cap, clock, ended, nMsg>>

\* the decode rejects: onmessage ends there (App.tsx 164)
DecodeFail(d) ==
  /\ d \in decoding
  /\ decoding' = decoding \ {d}
  /\ last' = Ev("DecodeFail", NoRun, FALSE, <<d.id>>)
  /\ UNCHANGED <<lifeVars, logVars, isSpeaking, cap, nextStartTime, sources, clock,
                 sched, stopped, ended, nMsg, purges, maxArr, cancelled>>

\* the 'ended' listener (App.tsx 168-171), fired once per started source, when it
\* has played to its end or has been stopped
SourceEnded(id) ==
  /\ id \in Scheduled \ ended
  /\ IF id \in stopped THEN TRUE ELSE clock >= EndAt(SegOf(id))
  /\ ended' = ended \cup {id}
  /\ sources' = sources \ {id}
  /\ isSpeaking' = IF sources \ {id} = {} THEN FALSE ELSE isSpeaking
  /\ last' = Ev("SourceEnded", NoRun, FALSE, <<id>>)
  /\ UNCHANGED <<lifeVars, logVars, cap, nextStartTime, clock, decoding, sched, stopped,
                 nMsg, purges, maxArr, cancelled>>

\* ---------------------------------------------- transcription connection
\* the connection opens (getReadyState() becomes 1)
DgOpen(r) ==
  /\ dg[r] = "connecting"
  /\ dg' = [dg EXCEPT ![r] = "open"]
  /\ last' = Ev("DgOpen", r, FALSE, <<>>)
  /\ UNCHANGED <<stale, status, isCapturing, errorMsg, videoSrc, sessionRef, sessionPromiseRef,
                 deepgramConnectionRef, outputAudioContext, micStreamRef,
                 captureIntervalRef, pc, video, mic, agent, prom, timer, proc, encoding,
                 playVars, logVars, isSpeaking, cap>>

\* a gate on is_final alone
ShouldCommitFinalOnly(fin, sfin) == fin

\* data.is_final && data.speech_final   (App.tsx 134)
ShouldCommit(fin, sfin) == fin /\ sfin

\* on('transcript') (App.tsx 130-138)
OnTranscript(r, txt, fin, sfin) ==
  /\ dg[r] = "open"
  /\ nTr < cap.trs
  /\ nTr' = nTr + 1
  /\ IF txt = EmptyText
     THEN UNCHANGED <<userTranscript, messages, full>>
     ELSE IF ShouldCommit(fin, sfin)
          THEN /\ messages' = addMessage(messages, "user", txt)
               /\ full' = AppendFull(full, "user", txt)
               /\ userTranscript' = EmptyText
          ELSE /\ userTranscript' = txt
               /\ UNCHANGED <<messages, full>>
  /\ last' = Ev("OnTranscript", r, FALSE, <<txt, fin, sfin>>)
  /\ UNCHANGED <<lifeVars, playVars, isSpeaking, cap, nOps, logged>>

\* an error handler that also tears the session down
DgOnErrorTeardown(r) ==
  /\ dg[r] \in {"connecting", "open"}
  /\ errorMsg' = "Transcription"
  /\ stopCapture(agent, NoRun)
  /\ last' = Ev("DgOnError", r, TRUE, <<>>)
  /\ UNCHANGED <<pc, prom, stopFrame>>

\* on('error') (App.tsx 139-142)
DgOnError(r) ==
  /\ dg[r] \in {"connecting", "open"}
  /\ errorMsg' = "Transcription"
  /\ last' = Ev("DgOnError", r, FALSE, <<>>)
  /\ UNCHANGED <<stale, status, isCapturing, videoSrc, sessionRef, sessionPromiseRef,
                 deepgramConnectionRef, outputAudioContext, micStreamRef,
                 captureIntervalRef, pc, video, mic, agent, prom, dg, timer, proc,
                 encoding, playVars, logVars, isSpeaking, cap>>

\* -------------------------------------------- audio processor, frame timer
\* what becomes of a block or a frame whose target connection is in state target
\* ("null": the ref was empty): session.sendRealtimeInput is called with no test
\* of the connection (App.tsx 207-209, 228-229), and calling it on null throws
SendOutcome(target) == IF target = "null" THEN "threw" ELSE "handed"

\* onaudioprocess (App.tsx 204-212): the block goes to the session of this run's
\* promise, and to the transcription connection the ref holds if it is open
AudioBlock(r) ==
  /\ proc[r]
  /\ last' = Ev("AudioBlock", r, FALSE,
                <<agent[r], IF deepgramConnectionRef = NoRun THEN FALSE
                            ELSE dg[deepgramConnectionRef] = "open">>)
  /\ UNCHANGED <<lifeVars, playVars, logVars, isSpeaking, cap>>

\* a tick of the frame timer (App.tsx 216-225): with no session promise in the ref
\* or no decoded video dimensions it returns, otherwise it starts an encode
FrameTick(r, hasDims) ==
  /\ timer[r] = "running"
  /\ encoding[r] = "idle"
  /\ encoding' = IF sessionPromiseRef # NoRun /\ hasDims
                 THEN [encoding EXCEPT ![r] = "busy"] ELSE encoding
  /\ last' = Ev("FrameTick", r, FALSE, <<sessionPromiseRef # NoRun /\ hasDims>>)
  /\ UNCHANGED <<stale, status, isCapturing, errorMsg, videoSrc, sessionRef, sessionPromiseRef,
                 deepgramConnectionRef, outputAudioContext, micStreamRef,
                 captureIntervalRef, pc, video, mic, agent, prom, dg, timer, proc,
                 playVars, logVars, isSpeaking, cap>>

\* the encode has ended (App.tsx 226-230): the session is read from the ref now;
\* an empty ref gives null and the send throws, else the frame goes to that session
FrameEncoded(r) ==
  /\ encoding[r] = "busy"
  /\ IF sessionPromiseRef = NoRun THEN TRUE ELSE prom[sessionPromiseRef] = "resolved"
  /\ encoding' = [encoding EXCEPT ![r] = "idle"]
  /\ last' = Ev("FrameEncoded", r, FALSE,
                <<IF sessionPromiseRef = NoRun THEN "null" ELSE agent[sessionPromiseRef]>>)
  /\ UNCHANGED <<stale, status, isCapturing, errorMsg, videoSrc, sessionRef, sessionPromiseRef,
                 deepgramConnectionRef, outputAudioContext, micStreamRef,
                 captureIntervalRef, pc, video, mic, agent, prom, dg, timer, proc,
                 playVars, logVars, isSpeaking, cap>>

\* ---------------------------------------------------- addMessage, applied
\* addMessage as its callers call it: 'user' with a non-empty transcript
\* (App.tsx 132-135), 'assistant' with any text (App.tsx 177)
LogAppend(role, txt) ==
  /\ nOps < cap.ops
  /\ role = "user" => txt # EmptyText
  /\ nOps' = nOps + 1
  /\ messages' = addMessage(messages, role, txt)
  /\ full' = AppendFull(full, role, txt)
  /\ last' = Ev("LogAppend", NoRun, FALSE, <<role, txt>>)
  /\ UNCHANGED <<lifeVars, playVars, isSpeaking, cap, userTranscript, nTr, logged>>

\* ------------------------------------------------------ specifications
NoEvent == [op |-> "Init", run |-> NoRun, pre |-> "DISCONNECTED", stop |-> FALSE,
            again |-> FALSE, arg |-> <<>>]

\* the component after its first render and mount effect (App.tsx 13-39)
InitState(c) ==
  /\ status = "DISCONNECTED"
  /\ messages = <<>>
  /\ full = <<>>
  /\ isCapturing = FALSE
  /\ isSpeaking = FALSE
  /\ errorMsg \in {"none", "Https"}
  /\ userTranscript = EmptyText
  /\ videoSrc = NoRun
  /\ sessionRef = NoRun
  /\ sessionPromiseRef = NoRun
  /\ deepgramConnectionRef = NoRun
  /\ outputAudioContext = FALSE
  /\ nextStartTime = 0
  /\ sources = {}
  /\ micStreamRef = NoRun
  /\ captureIntervalRef = NoRun
  /\ pc = [r \in Runs |-> "idle"]
  /\ video = [r \in Runs |-> "none"]
  /\ mic = [r \in Runs |-> "none"]
  /\ agent = [r \in Runs |-> "none"]
  /\ prom = [r \in Runs |-> "none"]
  /\ dg = [r \in Runs |-> "none"]
  /\ timer = [r \in Runs |-> "none"]
  /\ proc = [r \in Runs |-> FALSE]
  /\ encoding = [r \in Runs |-> "idle"]
  /\ clock = 0
  /\ decoding = {}
  /\ sched = <<>>
  /\ stopped = {}
  /\ ended = {}
  /\ nMsg = 0
  /\ purges = 0
  /\ maxArr = 0
  /\ nTr = 0
  /\ nOps = 0
  /\ cap = c
  /\ last = NoEvent
  /\ stale = {}
  /\ cancelled = {}
  /\ logged = <<>>

\* the first session once Active: Start, VideoGranted, MicGranted, DgOpen,
\* AgentOpen and SessionResolved of run 1 have run
ActiveState(c) ==
  /\ status = "CONNECTED"
  /\ messages = <<>>
  /\ full = <<>>
  /\ isCapturing = TRUE
  /\ isSpeaking = FALSE
  /\ errorMsg = "none"
  /\ userTranscript = EmptyText
  /\ videoSrc = 1
  /\ sessionRef = 1
  /\ sessionPromiseRef = 1
  /\ deepgramConnectionRef = 1
  /\ outputAudioContext = TRUE
  /\ nextStartTime = 0
  /\ sources = {}
  /\ micStreamRef = 1
  /\ captureIntervalRef = 1
  /\ pc = [r \in Runs |-> IF r = 1 THEN "done" ELSE "idle"]
  /\ video = [r \in Runs |-> IF r = 1 THEN "live" ELSE "none"]
  /\ mic = [r \in Runs |-> IF r = 1 THEN "live" ELSE "none"]
  /\ agent = [r \in Runs |-> IF r = 1 THEN "open" ELSE "none"]
  /\ prom = [r \in Runs |-> IF r = 1 THEN "resolved" ELSE "none"]
  /\ dg = [r \in Runs |-> IF r = 1 THEN "open" ELSE "none"]
  /\ timer = [r \in Runs |-> IF r = 1 THEN "running" ELSE "none"]
  /\ proc = [r \in Runs |-> r = 1]
  /\ encoding = [r \in Runs |-> "idle"]
  /\ clock = 0
  /\ decoding = {}
  /\ sched = <<>>
  /\ stopped = {}
  /\ ended = {}
  /\ nMsg = 0
  /\ purges = 0
  /\ maxArr = 0
  /\ nTr = 0
  /\ nOps = 0
  /\ cap = c
  /\ last = [NoEvent EXCEPT !.pre = "CONNECTED"]
  /\ stale = {}
  /\ cancelled = {}
  /\ logged = <<>>

\* what each specification lets the environment do: how many agent messages and
\* transcript events arrive, how far the transport clock runs, how many direct
\* appends are applied, and which texts the events carry
\* key: whether process.env.DEEPGRAM_API_KEY is set (App.tsx 82), fixed for the
\* life of the page
LifeCap(k) == [msgs |-> 0, trs |-> 0, clock |-> 0, ops |-> 0, texts |-> {EmptyText},
               key |-> k]
StopCap == [msgs |-> StopMsgs, trs |-> StopTrs, clock |-> StopClock, ops |-> 0,
            texts |-> {<<1>>}, key |-> TRUE]
PlayCap == [msgs |-> PlayMsgs, trs |-> 0, clock |-> PlayClock, ops |-> 0,
            texts |-> {EmptyText}, key |-> TRUE]
TextCap == [msgs |-> PlayMsgs, trs |-> 0, clock |-> StopClock, ops |-> 0,
            texts |-> AnyText, key |-> TRUE]
TrCap == [msgs |-> 0, trs |-> TrEvents, clock |-> 0, ops |-> 0, texts |-> AnyText,
          key |-> TRUE]
LogCap == [msgs |-> 0, trs |-> 0, clock |-> 0, ops |-> LogOps, texts |-> AnyText,
           key |-> TRUE]

Init == \E k \in BOOLEAN : InitState(LifeCap(k))
InitStop == ActiveState(StopCap)
InitPlay == ActiveState(PlayCap)
InitText == ActiveState(TextCap)
InitTr == ActiveState(TrCap)
InitLog == ActiveState(LogCap)

NextPlay ==
  \/ Tick
  \/ \E r \in Runs, hasAudio \in BOOLEAN, txt \in cap.texts, intr \in BOOLEAN :
       OnMessage(r, hasAudio, txt, intr)
  \/ \E d \in decoding, dur \in DecodeDurations : DecodeDone(d, dur)
  \/ \E d \in decoding : DecodeFail(d)
  \/ \E id \in Scheduled : SourceEnded(id)

NextLog ==
  \E role \in {"user", "assistant"}, txt \in cap.texts : LogAppend(role, txt)

NextTr ==
  \E r \in Runs, txt \in cap.texts, fin \in BOOLEAN, sfin \in BOOLEAN :
    OnTranscript(r, txt, fin, sfin)

Next ==
  \/ \E r \in Runs, hasKey \in BOOLEAN : Start(r, hasKey)
  \/ \E r \in Runs : VideoGranted(r)
  \/ \E r \in Runs : VideoDenied(r)
  \/ \E r \in Runs : MicGranted(r)
  \/ \E r \in Runs : MicDenied(r)
  \/ \E r \in Runs : SessionRejected(r)
  \/ \E r \in Runs : SessionResolved(r)
  \/ UserStop
  \/ \E r \in Runs : AgentOpen(r)
  \/ \E r \in Runs : AgentError(r)
  \/ \E r \in Runs : AgentClose(r)
  \/ \E r \in Runs : DgOpen(r)
  \/ \E r \in Runs : DgOnError(r)

\* an Active session receiving agent messages and transcripts, and its teardown
NextStop ==
  \/ NextPlay
  \/ NextTr
  \/ UserStop
  \/ \E r \in Runs : AgentError(r)
  \/ \E r \in Runs : AgentClose(r)

\* the lifecycle with the capture pipelines of its sessions
NextSend ==
  \/ Next
  \/ \E r \in Runs : AudioBlock(r)
  \/ \E r \in Runs, hasDims \in BOOLEAN : FrameTick(r, hasDims)
  \/ \E r \in Runs : FrameEncoded(r)

Spec == Init /\ [][Next]_vars
SpecStop == InitStop /\ [][NextStop]_vars
SpecSend == Init /\ [][NextSend]_vars
SpecText == InitText /\ [][NextPlay]_vars
SpecPlay == InitPlay /\ [][NextPlay]_vars
SpecTr == InitTr /\ [][NextTr]_vars
SpecLog == InitLog /\ [][NextLog]_vars

\* the state the playback and log specifications start from is one the
\* lifecycle reaches
ActiveReached ==
  /\ status = "CONNECTED" /\ isCapturing /\ videoSrc = 1 /\ sessionRef = 1
  /\ sessionPromiseRef = 1 /\ deepgramConnectionRef = 1 /\ micStreamRef = 1
  /\ captureIntervalRef = 1 /\ pc[1] = "done" /\ video[1] = "live" /\ mic[1] = "live"
  /\ agent[1] = "open" /\ prom[1] = "resolved" /\ dg[1] = "open"
  /\ timer[1] = "running" /\ proc[1] /\ errorMsg = "none" /\ nMsg = 0 /\ nTr = 0
  /\ clock = 0 /\ \A r \in Runs \ {1} : pc[r] = "idle"

\* ==================================================================== claims
LiveRuns(tracks) == {r \in Runs : tracks[r] = "live"}

\* C1 (as stated): with no purge between two consecutive schedulings, the later
\* segment starts exactly at the earlier one's start plus its duration
C1_Contiguous ==
  \A i \in 1..(Len(sched) - 1) :
    sched[i + 1].epoch = sched[i].epoch
      => sched[i + 1].start = sched[i].start + sched[i].dur

\* C1 (amended): with no purge between two consecutive schedulings, the later
\* segment starts at the larger of the earlier one's end and the highest transport
\* clock sampled at a delta's arrival in between: never before the earlier one's
\* end (no overlap, starts non-decreasing), and later than it only when the clock
\* had run past that end
C1_NoOverlap ==
  \A i \in 1..(Len(sched) - 1) :
    sched[i + 1].epoch = sched[i].epoch
      => /\ sched[i + 1].start = Max(sched[i].start + sched[i].dur, sched[i + 1].arr)
         /\ sched[i + 1].start >= sched[i].start + sched[i].dur
         /\ sched[i + 1].start >= sched[i].start

\* two segments scheduled with no purge between them and a gap between them
C1_Witness ==
  /\ Len(sched) >= 2
  /\ sched[2].epoch = sched[1].epoch
  /\ sched[2].start > sched[1].start + sched[1].dur

\* C2: every segment handed to source.start after a purge starts at or after the
\* transport clock of the moment it is scheduled
C2_NotStale ==
  \A i \in DOMAIN sched : sched[i].epoch >= 1 => sched[i].start >= sched[i].clk

\* C3: when stopCapture runs while the status is CONNECTING, no track acquired by
\* the startAnalysis invocation it ends remains live
C3_StopReleasesTracks ==
  (last.stop /\ last.pre = "CONNECTING" /\ last.run # NoRun)
    => (video[last.run] # "live" /\ mic[last.run] # "live")

\* C4: at most one set of live media tracks, one agent connection, one
\* transcription connection and one frame timer exist at any time
C4_OneSession ==
  /\ Cardinality(LiveRuns(video)) <= 1
  /\ Cardinality(LiveRuns(mic)) <= 1
  /\ Cardinality({r \in Runs : agent[r] \in {"connecting", "open"}}) <= 1
  /\ Cardinality({r \in Runs : dg[r] \in {"connecting", "open"}}) <= 1
  /\ Cardinality({r \in Runs : timer[r] = "running"}) <= 1

\* C5: a transcript event with empty text changes neither the buffer nor the log;
\* a non-empty one commits a user entry with its text and clears the buffer if and
\* only if it is final and speech-final, and otherwise only sets the buffer to its text
C5_TranscriptGate ==
  [][last'.op = "OnTranscript" =>
      LET txt == last'.arg[1]
          fin == last'.arg[2]
          sfin == last'.arg[3]
          n == Len(messages)
          m == Len(messages')
      IN IF txt = EmptyText
         THEN userTranscript' = userTranscript /\ messages' = messages
         ELSE IF fin /\ sfin
              THEN /\ m = Min(n + 1, K)
                   /\ messages'[m] = [role |-> "user", text |-> txt]
                   /\ \A i \in 1..(m - 1) : messages'[i] = messages[i + (n + 1 - m)]
                   /\ userTranscript' = EmptyText
              ELSE /\ messages' = messages
                   /\ userTranscript' = txt]_vars

\* an interim, a final and a final speech-final event have committed one entry
C5_Witness ==
  /\ last.op = "OnTranscript"
  /\ last.arg = <<(<<1>>), TRUE, TRUE>>
  /\ nTr = 3
  /\ Len(messages) = 1
  /\ messages[1] = [role |-> "user", text |-> <<1>>]
  /\ userTranscript = EmptyText

\* the effect C6 states for an append: a merge into the last entry for an assistant
\* entry after an assistant entry, a new last entry in every other case
C6Effect(role, txt) ==
  LET n == Len(messages)
      m == Len(messages')
  IN IF role = "assistant" /\ n > 0 /\ messages[n].role = "assistant"
     THEN /\ m = n
          /\ messages'[m] = [role |-> "assistant", text |-> messages[n].text \o txt]
          /\ \A i \in 1..(m - 1) : messages'[i] = messages[i]
     ELSE /\ m = Min(n + 1, K)
          /\ m >= 1
          /\ messages'[m] = [role |-> role, text |-> txt]
          /\ \A i \in 1..(m - 1) : messages'[i] = messages[i + (n + 1 - m)]

\* C6 (as stated): every append merges or adds an entry
C6_AppendOrMerge ==
  [][last'.op = "LogAppend" => C6Effect(last'.arg[1], last'.arg[2])]_vars

\* C6 (amended): an append with empty text changes nothing; an append with
\* non-empty text merges into the last entry when both are assistant entries and
\* adds a new last entry in every other case
C6_AppendOrMergeNonEmpty ==
  [][last'.op = "LogAppend" =>
      IF last'.arg[2] = EmptyText
      THEN messages' = messages
      ELSE C6Effect(last'.arg[1], last'.arg[2])]_vars

\* assistant, user, assistant, assistant: three entries, the last one merged
C6_Witness ==
  /\ last.op = "LogAppend"
  /\ last.arg[1] = "assistant"
  /\ Len(messages) = 3
  /\ messages[1].role = "assistant"
  /\ messages[2].role = "user"
  /\ messages[3].role = "assistant"
  /\ Len(messages[3].text) = 2
  /\ nOps = 4

\* C7: the log holds at most K entries, and they are the most recent of all the
\* entries stored, in the order stored
C7_LastFive ==
  LET n == Len(full)
      m == Min(n, K)
  IN /\ Len(messages) = m
     /\ Len(messages) <= K
     /\ \A i \in 1..m : messages[i] = full[n - m + i]

\* more than K entries have been stored and the oldest has been dropped
C7_Witness ==
  /\ Len(full) > K
  /\ Len(messages) = K
  /\ messages[1] = full[Len(full) - K + 1]
  /\ messages[1] # full[1]

\* C8: a failure of startAnalysis leaves the status ERROR with an error message
\* set, stopCapture having run
C8_FailureLeavesError ==
  last.op = "StartFailed" => (status = "ERROR" /\ errorMsg # "none" /\ last.stop)

\* C9 (as stated): an error event of the transcription connection of an Active
\* session sets its message and tears the session down
C9_DgErrorTearsDown ==
  (last.op = "DgOnError" /\ last.pre = "CONNECTED")
    => /\ errorMsg = "Transcription"
       /\ status # "CONNECTED"
       /\ ~isCapturing
       /\ LiveRuns(video) = {} /\ LiveRuns(mic) = {}
       /\ \A r \in Runs : agent[r] # "open" /\ timer[r] # "running"

\* C9 (amended): an error event of the transcription connection sets its own
\* message and changes nothing else: no track is stopped, no connection closed,
\* no timer cancelled, and the status and flags stay as they were
C9_DgErrorOnlyReports ==
  [][last'.op = "DgOnError" =>
      /\ errorMsg' = "Transcription"
      /\ ~last'.stop
      /\ UNCHANGED <<status, isCapturing, isSpeaking, userTranscript, videoSrc,
                     sessionRef, sessionPromiseRef, deepgramConnectionRef,
                     micStreamRef, captureIntervalRef, video, mic, agent, dg, timer>>
  ]_vars

\* the transcription connection of an Active session has reported an error and
\* the session is still Active
C9_Witness ==
  /\ last.op = "DgOnError"
  /\ last.pre = "CONNECTED"
  /\ errorMsg = "Transcription"
  /\ status = "CONNECTED"
  /\ isCapturing
  /\ video[last.run] = "live" /\ mic[last.run] = "live"
  /\ agent[last.run] = "open"
  /\ timer[last.run] = "running"

\* C10: after stopCapture the active set is empty, nextStart is 0, the speaking
\* flag is false and the transcript buffer is empty
C10_StopResetsPlayback ==
  last.stop => /\ sources = {}
               /\ nextStartTime = 0
               /\ ~isSpeaking
               /\ userTranscript = EmptyText

\* C11: after stopCapture no agent connection and no transcription connection is
\* open or being opened, and no frame timer is running
C11_StopClosesConnections ==
  last.stop => \A r \in Runs : /\ agent[r] \notin {"connecting", "open"}
                               /\ dg[r] \notin {"connecting", "open"}
                               /\ timer[r] # "running"

\* C12: a stopCapture that runs right after a stopCapture changes nothing of the
\* status, the flags, the transcript buffer, the refs, the media and the
\* connections, apart from the transition of the connection whose callback it is
C12_StopIdempotent ==
  [][(last.stop /\ last'.stop) =>
       /\ UNCHANGED <<status, isCapturing, isSpeaking, userTranscript, videoSrc,
                      sessionRef, sessionPromiseRef, deepgramConnectionRef,
                      micStreamRef, captureIntervalRef, video, mic, dg, timer,
                      messages, nextStartTime, sources>>
       /\ \A r \in Runs \ {last'.run} : agent'[r] = agent[r]]_vars

\* a stopCapture has run twice in a row, the second from onclose
C12_Witness == last.stop /\ last.again /\ last.op = "AgentClose"

\* C13: when the agent connection of the Active session reports an error or a
\* close, the media tracks of that session are stopped, its transcription
\* connection is finished, its frame timer is cancelled and the session is neither
\* Active nor capturing
C13_AgentFailureTearsDown ==
  (/\ last.op \in {"AgentError", "AgentClose"}
   /\ last.pre = "CONNECTED"
   /\ last.arg[1])
  => /\ video[last.run] # "live"
     /\ mic[last.run] # "live"
     /\ dg[last.run] \notin {"connecting", "open"}
     /\ timer[last.run] # "running"
     /\ status # "CONNECTED"
     /\ ~isCapturing

\* C14: an audio block or a frame whose agent connection is not open is dropped:
\* it is not handed to the session and nothing throws
C14_DroppedWhenNotOpen ==
  (last.op \in {"AudioBlock", "FrameEncoded"} /\ last.arg[1] # "open")
  => SendOutcome(last.arg[1]) = "dropped"

\* C15: with no purge, a delta that arrived earlier is started at an earlier
\* offset than one that arrived later, whatever the order of the decodes
C15_ArrivalOrder ==
  purges = 0 =>
    \A i, j \in DOMAIN sched :
      sched[i].id < sched[j].id => sched[i].start < sched[j].start

\* C16: a delta whose decode was in flight when a purge or a stopCapture ran is
\* never started and never enters the active set
C16_CancelledDecodeInert ==
  /\ Scheduled \cap cancelled = {}
  /\ sources \cap cancelled = {}

\* C17: the continuation of a startAnalysis that was suspended when a stopCapture
\* ran does not run on, and the onopen of its connection does not make the
\* session Active
C17_NoStaleContinuation ==
  last.op \in {"SessionResolved", "AgentOpen"} => ~last.arg[1]

\* C18: when the handling of a message that carries the interrupted signal gives
\* way to other events, the purge has taken effect: the active set is empty and
\* every handle that was active is stopped, nextStart is 0, the speaking flag is
\* false
C18_PurgeWithinSignal ==
  (last.op = "OnMessage" /\ last.arg[3])
  => /\ sources = {}
     /\ Scheduled \ ended \subseteq stopped
     /\ nextStartTime = 0
     /\ ~isSpeaking

\* C19: the texts of the agent messages reach the log in the order the messages
\* arrived
C19_TextInArrivalOrder ==
  \A i, j \in DOMAIN logged : i < j => logged[i].id < logged[j].id

\* C20: once nothing is pending any more (no decode in flight, every started
\* source ended), the speaking flag is false and the active set is empty
C20_SpeakingSettles ==
  (decoding = {} /\ Scheduled \subseteq ended) => (~isSpeaking /\ sources = {})

====
